---- MODULE Spec2Model ----
(***************************************************************************)
(* Disaster-signal classifier and alert aggregator.                        *)
(*                                                                         *)
(*   SocialMediaAnalyzer   (src/src/lib/socialMediaAnalysis.ts)            *)
(*   SatelliteImageAnalyzer (src/unnamed/part_002)                         *)
(*   analyzeSatelliteImage  (src/src/components/DisasterDetection.tsx)     *)
(*                                                                         *)
(* Number representation.  Text confidences are kept in hundredths (the    *)
(* code's terms are 0.1*k, 0.02*|s|, 0.05 and 0.1).  The running sentiment *)
(* of an alert is an exact dyadic rational [num, den].  Alert severity is  *)
(* computed in halves.  Channel means of an image are k/Grid and every     *)
(* image quantity is an integer count of 1/(Grid*10000).  Floating-point   *)
(* rounding of the JavaScript doubles is not modelled.                     *)
(***************************************************************************)
EXTENDS Integers, Sequences, FiniteSets, TLC

(***************************************************************************)
(* Strings.  Text is a TLA+ string; characters are one-character strings.  *)
(***************************************************************************)
Lowers == "abcdefghijklmnopqrstuvwxyz"
Uppers == "ABCDEFGHIJKLMNOPQRSTUVWXYZ"
Digits == "0123456789_"

charAt(s, i) == SubSeq(s, i, i)

slice(s, i) == SubSeq(s, i, Len(s))

\* position of character c in alphabet a, 0 when absent
IndexIn(c, a) ==
    IF \E i \in 1..Len(a) : charAt(a, i) = c
    THEN CHOOSE i \in 1..Len(a) : charAt(a, i) = c
    ELSE 0

IsLower(c) == IndexIn(c, Lowers) > 0

IsUpper(c) == IndexIn(c, Uppers) > 0

\* \w of the regular expressions: [A-Za-z0-9_]
IsWordChar(c) == IsLower(c) \/ IsUpper(c) \/ IndexIn(c, Digits) > 0

lowerChar(c) == IF IsUpper(c) THEN charAt(Lowers, IndexIn(c, Uppers)) ELSE c

upperChar(c) == IF IsLower(c) THEN charAt(Uppers, IndexIn(c, Lowers)) ELSE c

RECURSIVE toLowerCase(_)
toLowerCase(s) ==
    IF s = "" THEN "" ELSE lowerChar(charAt(s, 1)) \o toLowerCase(slice(s, 2))

\* String.prototype.includes
includes(text, word) ==
    \E i \in 1..(Len(text) - Len(word) + 1) :
        SubSeq(text, i, i + Len(word) - 1) = word

\* x.charAt(0).toUpperCase() + x.slice(1)
capitalize(s) == IF s = "" THEN "" ELSE upperChar(charAt(s, 1)) \o slice(s, 2)

Min(a, b) == IF a <= b THEN a ELSE b

Max(a, b) == IF a >= b THEN a ELSE b

Abs(a) == IF a < 0 THEN -a ELSE a

(***************************************************************************)
(* tokenize: lower-case, replace every non-word non-space character by a   *)
(* space, split on white space, drop empty strings.  Only the number of    *)
(* tokens is used by the analyzer.                                         *)
(***************************************************************************)
IsTokenChar(c) == IsWordChar(c)

\* number of maximal runs of word characters in s
tokenCount(s) ==
    Cardinality({ i \in 1..Len(s) :
        /\ IsTokenChar(charAt(s, i))
        /\ (i = 1 \/ ~IsTokenChar(charAt(s, i - 1))) })

tokenize(text) == tokenCount(toLowerCase(text))

(***************************************************************************)
(* SocialMediaAnalyzer: the fixed tables.                                  *)
(***************************************************************************)
\* Object.entries order of disasterKeywords
disasterKeywords ==
    << [type |-> "flood",
        keywords |-> << "flood", "flooding", "water rising", "inundation",
                        "waterlogged", "deluge", "submerg" >>],
       [type |-> "fire",
        keywords |-> << "fire", "blaze", "burning", "flames", "smoke",
                        "wildfire", "forest fire", "arson" >>],
       [type |-> "earthquake",
        keywords |-> << "earthquake", "tremor", "seismic", "quake", "shaking",
                        "aftershock", "epicenter" >>],
       [type |-> "hurricane",
        keywords |-> << "hurricane", "cyclone", "typhoon", "storm", "wind",
                        "gale", "tempest" >>],
       [type |-> "landslide",
        keywords |-> << "landslide", "mudslide", "rockslide", "slope failure",
                        "debris flow", "avalanche" >>],
       [type |-> "cyclone",
        keywords |-> << "cyclone", "tropical storm", "depression",
                        "low pressure", "eye of storm" >>],
       [type |-> "tsunami",
        keywords |-> << "tsunami", "tidal wave", "seismic sea wave",
                        "ocean wave" >>] >>

urgencyKeywords ==
    << "urgent", "emergency", "help", "sos", "critical", "immediate", "rescue",
       "trapped", "danger", "life threatening", "evacuate", "stranded" >>

\* Object.keys order of indianCities
indianCities ==
    << "mumbai", "delhi", "bangalore", "hyderabad", "chennai", "kolkata",
       "pune", "ahmedabad", "kerala", "wayanad", "uttarakhand", "assam",
       "odisha", "bihar", "rajasthan", "kashmir" >>

\* the values of indianCities, in the order of the keys; lat and lng are
\* held in units of 0.0001 degree
cityCoordinates ==
    << [lat |-> 190760, lng |-> 728777], [lat |-> 287041, lng |-> 771025],
       [lat |-> 129716, lng |-> 775946], [lat |-> 173850, lng |-> 784867],
       [lat |-> 130827, lng |-> 802707], [lat |-> 225726, lng |-> 883639],
       [lat |-> 185204, lng |-> 738567], [lat |-> 230225, lng |-> 725714],
       [lat |-> 108505, lng |-> 762711], [lat |-> 116854, lng |-> 761320],
       [lat |-> 300668, lng |-> 790193], [lat |-> 262006, lng |-> 929376],
       [lat |-> 209517, lng |-> 850985], [lat |-> 250961, lng |-> 853131],
       [lat |-> 270238, lng |-> 742179], [lat |-> 340837, lng |-> 747973] >>

\* the literal prefixes of the four locationPatterns, in array order
locationPatterns == << "in ", "at ", "from ", "near " >>

\* the value 1.0 of Math.min(1, ...) in hundredths
ONE == 100

(***************************************************************************)
(* extractLocation                                                         *)
(***************************************************************************)
IsLetter(c) == IsLower(c) \/ IsUpper(c)

\* positions where /<prefix>([a-z]+)/i matches in text
patternHits(text, prefix) ==
    { i \in 1..Len(text) :
        /\ i + Len(prefix) <= Len(text)
        /\ toLowerCase(SubSeq(text, i, i + Len(prefix) - 1)) = prefix
        /\ IsLetter(charAt(text, i + Len(prefix))) }

\* the longest run of letters of text that starts at position i
letterRun(text, i) ==
    LET ends == { j \in i..Len(text) :
                    \A k \in i..j : IsLetter(charAt(text, k)) }
        last == CHOOSE j \in ends : \A k \in ends : k <= j
    IN  SubSeq(text, i, last)

\* match[1] of text.match(pattern) for the leftmost match
patternCapture(text, prefix) ==
    LET hits  == patternHits(text, prefix)
        first == CHOOSE i \in hits : \A k \in hits : i <= k
    IN  letterRun(text, first + Len(prefix))

RECURSIVE firstCity(_, _)
firstCity(text, i) ==
    IF i > Len(indianCities) THEN ""
    ELSE IF includes(text, indianCities[i]) THEN indianCities[i]
    ELSE firstCity(text, i + 1)

\* mutant of firstPattern: the pattern that matches leftmost in the text wins
firstPattern_leftmost(text, i) ==
    LET matching == { k \in i..Len(locationPatterns) :
                        patternHits(text, locationPatterns[k]) # {} }
        leftmost(k) == CHOOSE h \in patternHits(text, locationPatterns[k]) :
                          \A g \in patternHits(text, locationPatterns[k]) : h <= g
    IN  IF matching = {} THEN "Unknown Location"
        ELSE LET best == CHOOSE k \in matching :
                            \A m \in matching : leftmost(k) <= leftmost(m)
             IN  capitalize(patternCapture(text, locationPatterns[best]))

RECURSIVE firstPattern(_, _)
firstPattern(text, i) ==
    IF i > Len(locationPatterns) THEN "Unknown Location"
    ELSE IF patternHits(text, locationPatterns[i]) # {}
         THEN capitalize(patternCapture(text, locationPatterns[i]))
         ELSE firstPattern(text, i + 1)

\* providedLocation = "" stands for an absent (or empty, equally falsy) field
extractLocation(text, providedLocation) ==
    IF providedLocation # "" THEN providedLocation
    ELSE IF firstCity(text, 1) # "" THEN capitalize(firstCity(text, 1))
    ELSE firstPattern(text, 1)

(***************************************************************************)
(* calculateConfidence, calculateInitialSeverity                           *)
(***************************************************************************)
\* mutant of calculateConfidence: the per-term caps and the final cap are forgotten
calculateConfidence_uncapped(keywordMatches, urgencyCount, sentimentScore, textLength) ==
    keywordMatches * 10 + urgencyCount * 10
    + (IF sentimentScore < 0 THEN Abs(sentimentScore) * 2 ELSE 0)
    + (IF textLength >= 10 /\ textLength <= 100 THEN 10 ELSE 0)

\* mutant of calculateConfidence: the length bonus is given on the open
\* interval only
calculateConfidence_openInterval(keywordMatches, urgencyCount, sentimentScore, textLength) ==
    LET c1 == Min(40, keywordMatches * 10)
        c2 == c1 + Min(30, urgencyCount * 10)
        c3 == IF sentimentScore < 0
              THEN c2 + Min(20, Abs(sentimentScore) * 2) ELSE c2
        c4 == IF textLength > 10 /\ textLength < 100 THEN c3 + 10 ELSE c3
    IN  Min(ONE, c4)

calculateConfidence(keywordMatches, urgencyCount, sentimentScore, textLength) ==
    LET c1 == Min(40, keywordMatches * 10)
        c2 == c1 + Min(30, urgencyCount * 10)
        c3 == IF sentimentScore < 0
              THEN c2 + Min(20, Abs(sentimentScore) * 2) ELSE c2
        c4 == IF textLength >= 10 /\ textLength <= 100 THEN c3 + 10 ELSE c3
    IN  Min(ONE, c4)

\* mutant of calculateInitialSeverity: the second adjustment is not capped
calculateInitialSeverity_secondUncapped(urgencyLevel, sentimentScore, keywordMatches) ==
    LET s0 == CASE urgencyLevel = "critical" -> 5
                [] urgencyLevel = "high"     -> 4
                [] urgencyLevel = "medium"   -> 3
                [] urgencyLevel = "low"      -> 2
                [] OTHER                     -> 1
        s1 == IF sentimentScore < -5 THEN Min(5, s0 + 1) ELSE s0
        s2 == IF keywordMatches >= 3 THEN s1 + 1 ELSE s1
    IN  s2

calculateInitialSeverity(urgencyLevel, sentimentScore, keywordMatches) ==
    LET s0 == CASE urgencyLevel = "critical" -> 5
                [] urgencyLevel = "high"     -> 4
                [] urgencyLevel = "medium"   -> 3
                [] urgencyLevel = "low"      -> 2
                [] OTHER                     -> 1
        s1 == IF sentimentScore < -5 THEN Min(5, s0 + 1) ELSE s0
        s2 == IF keywordMatches >= 3 THEN Min(5, s1 + 1) ELSE s1
    IN  s2

(***************************************************************************)
(* analyzePost                                                             *)
(***************************************************************************)
\* keywords.filter(keyword => text.includes(keyword))
matchesOf(text, keywords) == SelectSeq(keywords, LAMBDA k : includes(text, k))

\* mutant of scanCategories: the keywords of a new winner replace the list
RECURSIVE scanCategories_replaces(_, _, _)
scanCategories_replaces(text, i, acc) ==
    IF i > Len(disasterKeywords) THEN acc
    ELSE LET matches == matchesOf(text, disasterKeywords[i].keywords)
         IN  IF Len(matches) > acc.maxMatches
             THEN scanCategories_replaces(text, i + 1,
                     [maxMatches      |-> Len(matches),
                      disasterType    |-> disasterKeywords[i].type,
                      matchedKeywords |-> matches])
             ELSE scanCategories_replaces(text, i + 1, acc)

\* mutant of scanCategories: the categories are scanned from the last one
RECURSIVE scanCategories_reversed(_, _, _)
scanCategories_reversed(text, i, acc) ==
    IF i > Len(disasterKeywords) THEN acc
    ELSE LET c       == disasterKeywords[Len(disasterKeywords) + 1 - i]
             matches == matchesOf(text, c.keywords)
         IN  IF Len(matches) > acc.maxMatches
             THEN scanCategories_reversed(text, i + 1,
                     [maxMatches      |-> Len(matches),
                      disasterType    |-> c.type,
                      matchedKeywords |-> acc.matchedKeywords \o matches])
             ELSE scanCategories_reversed(text, i + 1, acc)

\* mutant of scanCategories: a later category with as many matches wins
RECURSIVE scanCategories_lastWins(_, _, _)
scanCategories_lastWins(text, i, acc) ==
    IF i > Len(disasterKeywords) THEN acc
    ELSE LET matches == matchesOf(text, disasterKeywords[i].keywords)
         IN  IF Len(matches) >= acc.maxMatches /\ Len(matches) > 0
             THEN scanCategories_lastWins(text, i + 1,
                     [maxMatches      |-> Len(matches),
                      disasterType    |-> disasterKeywords[i].type,
                      matchedKeywords |-> acc.matchedKeywords \o matches])
             ELSE scanCategories_lastWins(text, i + 1, acc)

\* the for loop over Object.entries(disasterKeywords), category i onwards
RECURSIVE scanCategories(_, _, _)
scanCategories(text, i, acc) ==
    IF i > Len(disasterKeywords) THEN acc
    ELSE LET matches == matchesOf(text, disasterKeywords[i].keywords)
         IN  IF Len(matches) > acc.maxMatches
             THEN scanCategories(text, i + 1,
                     [maxMatches      |-> Len(matches),
                      disasterType    |-> disasterKeywords[i].type,
                      matchedKeywords |-> acc.matchedKeywords \o matches])
             ELSE scanCategories(text, i + 1, acc)

\* disasterType "null" stands for the null of the code
detectType(text) ==
    scanCategories(text, 1,
        [maxMatches |-> 0, disasterType |-> "null", matchedKeywords |-> << >>])

\* mutant of urgencyOf: every occurrence of an entry is counted
urgencyOf_occurrences(text) ==
    LET occurrences(k) ==
            Cardinality({ i \in 1..Len(text) :
                            /\ i + Len(k) - 1 <= Len(text)
                            /\ SubSeq(text, i, i + Len(k) - 1) = k })
        sum[i \in 0..Len(urgencyKeywords)] ==
            IF i = 0 THEN 0 ELSE sum[i - 1] + occurrences(urgencyKeywords[i])
    IN  sum[Len(urgencyKeywords)]

\* urgencyKeywords.filter(keyword => text.includes(keyword)).length
urgencyOf(text) == Len(matchesOf(text, urgencyKeywords))

urgencyLevelOf(urgencyCount) ==
    IF urgencyCount >= 3 THEN "critical"
    ELSE IF urgencyCount >= 2 THEN "high"
    ELSE IF urgencyCount >= 1 THEN "medium"
    ELSE "low"

(***************************************************************************)
(* Math.random() and Date.now() read the environment of the run.  A run    *)
(* lives in one of MaxEnv environments; an environment fixes the value     *)
(* each call returns, and nothing the caller passes in selects it.         *)
(***************************************************************************)
MaxEnv == 2

Envs == 1..MaxEnv

\* Math.random() at call site j of loop iteration n, in thousandths (0..999)
mathRandom(e, n, j) == (e * 389 + n * 211 + j * 97) % 1000

\* Date.now() during loop iteration n, in milliseconds
dateNow(e, n) == e * 1000 + n

\* what getCoordinates returns when the location is not an indianCities key:
\* the two Math.random() values are filled in by coordinatesIn
RandomInIndia == [random |-> TRUE]

\* getCoordinates up to the values of Math.random()
getCoordinates(location) ==
    LET locationLower == toLowerCase(location)
        hits == { i \in 1..Len(indianCities) : indianCities[i] = locationLower }
    IN  IF hits # {} THEN cityCoordinates[CHOOSE i \in hits : TRUE]
        ELSE RandomInIndia

\* the coordinates of the analysis of loop iteration n in environment e:
\* 20.5937 + (Math.random() - 0.5) * 15 and 78.9629 + (Math.random() - 0.5) * 15
coordinatesIn(coordinates, e, n) ==
    IF coordinates = RandomInIndia
    THEN [lat |-> 205937 + (mathRandom(e, n, 1) - 500) * 150,
          lng |-> 789629 + (mathRandom(e, n, 2) - 500) * 150]
    ELSE coordinates

majorCities ==
    << "mumbai", "delhi", "bangalore", "hyderabad", "chennai", "kolkata" >>

\* estimateAffectedPopulation, random being the value of its Math.random()
\* call in thousandths
estimateAffectedPopulation(location, random) ==
    LET locationLower == toLowerCase(location)
    IN  IF \E i \in 1..Len(majorCities) : includes(locationLower, majorCities[i])
        THEN random * 50 + 10000
        ELSE random * 10 + 1000

\* mutant of isDisasterRelated: the null test is dropped and 0 matches pass
isDisasterRelated_zeroPasses(disasterType, maxMatches) == maxMatches >= 0

isDisasterRelated(disasterType, maxMatches) ==
    disasterType # "null" /\ maxMatches > 0

\* post.score is what sentiment.analyze(text).score returns for post.text
analyzePost(post) ==
    LET text           == toLowerCase(post.text)
        tokens         == tokenize(text)
        det            == detectType(text)
        location       == extractLocation(text, post.location)
        sentimentScore == post.score
        urgencyCount   == urgencyOf(text)
        urgencyLevel   == urgencyLevelOf(urgencyCount)
    IN  [isDisasterRelated |-> isDisasterRelated(det.disasterType, det.maxMatches),
         disasterType   |-> det.disasterType,
         location       |-> location,
         coordinates    |-> getCoordinates(location),
         confidence     |-> calculateConfidence(det.maxMatches, urgencyCount,
                                                sentimentScore, tokens),
         severity       |-> calculateInitialSeverity(urgencyLevel,
                                                sentimentScore, det.maxMatches),
         sentimentScore |-> sentimentScore,
         urgencyLevel   |-> urgencyLevel,
         keywords       |-> det.matchedKeywords]

(***************************************************************************)
(* The posts a batch is drawn from.  score is the value the sentiment      *)
(* library (an external collaborator) returns for the text.                *)
(***************************************************************************)
Catalogue ==
    << [id |-> "p1", text |-> "Heavy flooding in Mumbai! Need help",
        location |-> "", score |-> -2],
       [id |-> "p2", text |-> "Flood water rising in mumbai",
        location |-> "mumbai", score |-> -2],
       [id |-> "p3",
        text |-> "URGENT URGENT SOS trapped need rescue, floods submerge Mumbai",
        location |-> "", score |-> -6],
       [id |-> "p4", text |-> "Massive fire in Goa. Smoke everywhere",
        location |-> "Goa", score |-> -2],
       [id |-> "p5", text |-> "Lovely sunny day at the beach",
        location |-> "", score |-> 3],
       [id |-> "p6", text |-> "Cyclone hitting Odisha, send help",
        location |-> "", score |-> 0],
       [id |-> "e1",
        text |-> "",
        location |-> "", score |-> 0],
       [id |-> "p7",
        text |-> "Earthquake tremor in Kerala, buildings shaking, people trapped",
        location |-> "", score |-> -6],
       [id |-> "p8",
        text |-> "Terrible deadly earthquake disaster in Kerala, many dead",
        location |-> "", score |-> -12] >>

\* batches of the short runs draw from the first ShortPool catalogue posts,
\* batches of the long runs from the last LongPool
ShortPool == 6
LongPool == 2
MaxBatch == 5
MaxLongBatch == 10

PostIds == 1..Len(Catalogue)

ShortIds == { i \in PostIds : i <= ShortPool }

LongIds == { i \in PostIds : i > Len(Catalogue) - LongPool }

\* posts as a caller can hand them in although the SocialMediaPost type
\* forbids it: text is missing (undefined)
Unreadable == << [id |-> "m1", location |-> ""] >>

AllPosts == Catalogue \o Unreadable

UnreadableIds == (Len(Catalogue) + 1)..Len(AllPosts)

\* the catalogue post whose text is empty
EmptyIds == { i \in PostIds : Catalogue[i].text = "" }

\* batches of the faulty runs draw from the first FaultyPool catalogue
\* posts, the empty post and the unreadable post
FaultyPool == 3
MaxFaultyBatch == 4

FaultyIds == { i \in PostIds : i <= FaultyPool } \cup EmptyIds \cup UnreadableIds

\* const text = post.text.toLowerCase() throws a TypeError when post.text is
\* undefined, and nothing in analyzePost or analyzePosts catches it
throws(post) == "text" \notin DOMAIN post

\* batches of the escalation runs hold up to MaxEscalateBatch posts
MaxEscalateBatch == 7

\* analyzePost of every catalogue post
Analysis == [i \in PostIds |-> analyzePost(Catalogue[i])]

(***************************************************************************)
(* analyzePosts: the aggregation loop, then filter and sort.               *)
(* alerts is the Map in insertion order, one [key, value] per entry.       *)
(***************************************************************************)
\* `${analysis.disasterType}-${analysis.location}`
keyOf(analysis) == analysis.disasterType \o "-" \o analysis.location

\* mutant of has: the lookup is made with the location instead of the key
has_byLocation(alerts, key) ==
    \E i \in 1..Len(alerts) : alerts[i].value.location = key

\* alerts.has(key)
has(alerts, key) == \E i \in 1..Len(alerts) : alerts[i].key = key

\* index of the entry alerts.get(key) returns
indexOfKey(alerts, key) == CHOOSE i \in 1..Len(alerts) : alerts[i].key = key

\* alert.sentimentScore < -10 for the dyadic rational num/den
sentimentBelow(sentimentScore, bound) ==
    sentimentScore.num < bound * sentimentScore.den

\* mutant of calculateSeverity: Math.floor instead of Math.ceil
calculateSeverity_roundsDown(alert) ==
    LET h0 == 2 * alert.severity
        h1 == IF alert.reportCount >= 10 THEN Min(10, h0 + 2)
              ELSE IF alert.reportCount >= 5 THEN Min(10, h0 + 1)
              ELSE h0
        h2 == IF alert.sentimentScore.num < -10 * alert.sentimentScore.den
              THEN Min(10, h1 + 2) ELSE h1
    IN  h2 \div 2

\* mutant of calculateSeverity: the caps at 5 are forgotten
calculateSeverity_uncapped(alert) ==
    LET h0 == 2 * alert.severity
        h1 == IF alert.reportCount >= 10 THEN h0 + 2
              ELSE IF alert.reportCount >= 5 THEN h0 + 1
              ELSE h0
        h2 == IF alert.sentimentScore.num < -10 * alert.sentimentScore.den
              THEN h1 + 2 ELSE h1
    IN  (h2 + 1) \div 2

\* calculateSeverity, in halves, then Math.ceil
calculateSeverity(alert) ==
    LET h0 == 2 * alert.severity
        h1 == IF alert.reportCount >= 10 THEN Min(10, h0 + 2)
              ELSE IF alert.reportCount >= 5 THEN Min(10, h0 + 1)
              ELSE h0
        h2 == IF sentimentBelow(alert.sentimentScore, -10)
              THEN Min(10, h1 + 2) ELSE h1
    IN  (h2 + 1) \div 2

\* (existing.sentimentScore + analysis.sentimentScore) / 2
averageSentiment(old, incoming) ==
    [num |-> old.num + incoming * old.den, den |-> 2 * old.den]

\* mutant of bumpConfidence: the cap at 1 is forgotten
bumpConfidence_uncapped(confidence) == confidence + 5

\* Math.min(1, existing.confidence + 0.05)
bumpConfidence(confidence) == Min(ONE, confidence + 5)

\* mutant of mergeAlert: the alert takes the urgency level and the keywords
\* of the incoming post
mergeAlert_takesIncoming(existing, analysis, post) ==
    LET e1 == [existing EXCEPT
                 !.reportCount    = @ + 1,
                 !.sources        = Append(@, post),
                 !.confidence     = bumpConfidence(@),
                 !.sentimentScore = averageSentiment(@, analysis.sentimentScore),
                 !.urgencyLevel   = analysis.urgencyLevel,
                 !.keywords       = analysis.keywords]
    IN  [e1 EXCEPT !.severity = calculateSeverity(e1)]

\* mutant of mergeAlert: severity is recomputed before reportCount and
\* sentimentScore are updated
mergeAlert_severityFirst(existing, analysis, post) ==
    [existing EXCEPT
        !.severity       = calculateSeverity(existing),
        !.reportCount    = @ + 1,
        !.sources        = Append(@, post),
        !.confidence     = bumpConfidence(@),
        !.sentimentScore = averageSentiment(@, analysis.sentimentScore)]

\* mutant of mergeAlert: the source is put in front of the list
mergeAlert_prepend(existing, analysis, post) ==
    LET e1 == [existing EXCEPT
                 !.reportCount    = @ + 1,
                 !.sources        = << post >> \o @,
                 !.confidence     = bumpConfidence(@),
                 !.sentimentScore = averageSentiment(@, analysis.sentimentScore)]
    IN  [e1 EXCEPT !.severity = calculateSeverity(e1)]

\* the then-branch of alerts.has(key): merge post into the existing alert
mergeAlert(existing, analysis, post) ==
    LET e1 == [existing EXCEPT
                 !.reportCount    = @ + 1,
                 !.sources        = Append(@, post),
                 !.confidence     = bumpConfidence(@),
                 !.sentimentScore = averageSentiment(@, analysis.sentimentScore)]
    IN  [e1 EXCEPT !.severity = calculateSeverity(e1)]

\* mutant of newAlert: the creating post is not counted
newAlert_uncounted(analysis, post, e, n) ==
    [id             |-> [now |-> dateNow(e, n), random |-> mathRandom(e, n, 3)],
     disasterType   |-> analysis.disasterType,
     location       |-> analysis.location,
     coordinates    |-> coordinatesIn(analysis.coordinates, e, n),
     confidence     |-> analysis.confidence,
     severity       |-> analysis.severity,
     affectedPopulation |->
        estimateAffectedPopulation(analysis.location, mathRandom(e, n, 4)),
     reportCount    |-> 0,
     sentimentScore |-> [num |-> analysis.sentimentScore, den |-> 1],
     urgencyLevel   |-> analysis.urgencyLevel,
     keywords       |-> analysis.keywords,
     timestamp      |-> dateNow(e, n),
     sources        |-> << post >>]

\* the else-branch: the alert created from the first post of a key, in loop
\* iteration n of a run in environment e
newAlert(analysis, post, e, n) ==
    [id             |-> [now |-> dateNow(e, n), random |-> mathRandom(e, n, 3)],
     disasterType   |-> analysis.disasterType,
     location       |-> analysis.location,
     coordinates    |-> coordinatesIn(analysis.coordinates, e, n),
     confidence     |-> analysis.confidence,
     severity       |-> analysis.severity,
     affectedPopulation |->
        estimateAffectedPopulation(analysis.location, mathRandom(e, n, 4)),
     reportCount    |-> 1,
     sentimentScore |-> [num |-> analysis.sentimentScore, den |-> 1],
     urgencyLevel   |-> analysis.urgencyLevel,
     keywords       |-> analysis.keywords,
     timestamp      |-> dateNow(e, n),
     sources        |-> << post >>]

\* iteration n of the for loop on the Map, in environment e
processPost(alerts, analysis, post, e, n) ==
    IF ~analysis.isDisasterRelated THEN alerts
    ELSE LET key == keyOf(analysis)
         IN  IF has(alerts, key)
             THEN [alerts EXCEPT ![indexOfKey(alerts, key)].value =
                                    mergeAlert(@, analysis, post)]
             ELSE Append(alerts, [key |-> key, value |-> newAlert(analysis, post, e, n)])

\* mutant of published: more than two reports are required
published_moreThanTwo(alert) ==
    alert.reportCount > 2 \/ alert.urgencyLevel = "critical"

\* alert.reportCount >= 2 || alert.urgencyLevel === 'critical'
published(alert) == alert.reportCount >= 2 \/ alert.urgencyLevel = "critical"

\* mutant of insertSorted: an alert is put before the alerts of equal confidence
RECURSIVE insertSorted_beforeEqual(_, _)
insertSorted_beforeEqual(sorted, a) ==
    IF sorted = << >> THEN << a >>
    ELSE IF Head(sorted).confidence > a.confidence
         THEN << Head(sorted) >> \o insertSorted_beforeEqual(Tail(sorted), a)
         ELSE << a >> \o sorted

\* position of x in a list sorted so far: after every element the comparator
\* b.confidence - a.confidence does not put behind it (a stable sort)
RECURSIVE insertSorted(_, _)
insertSorted(sorted, a) ==
    IF sorted = << >> THEN << a >>
    ELSE IF Head(sorted).confidence >= a.confidence
         THEN << Head(sorted) >> \o insertSorted(Tail(sorted), a)
         ELSE << a >> \o sorted

RECURSIVE sortByConfidence(_)
sortByConfidence(xs) ==
    IF xs = << >> THEN << >>
    ELSE insertSorted(sortByConfidence(SubSeq(xs, 1, Len(xs) - 1)), xs[Len(xs)])

\* Array.from(alerts.values())
valuesOf(alerts) == [i \in 1..Len(alerts) |-> alerts[i].value]

\* the return statement of analyzePosts
filterAndSort(alerts) ==
    sortByConfidence(SelectSeq(valuesOf(alerts), published))

(***************************************************************************)
(* SatelliteImageAnalyzer.  r, g, b are the channel means after the        *)
(* normalisation to 0..1; a mean is k/Grid for k in 0..Grid and is held as *)
(* k*10000, so that 1.0 is Grid*10000 and every product below is exact.    *)
(***************************************************************************)
Grid == 20

IOne == Grid * 10000

Channels == { k * 10000 : k \in 0..Grid }

\* the decimal n/d of the code on the image scale
dec(n, d) == (n * IOne) \div d

Max3(a, b, c) == Max(a, Max(b, c))

Min3(a, b, c) == Min(a, Min(b, c))

\* Math.max(0, Math.min(1, v))
clamp01(v) == Max(0, Min(IOne, v))

\* mutant of classify: the hurricane rule is tried before the flood rule
classify_hurricaneFirst(r, g, b) ==
    IF r > dec(6, 10) /\ g > dec(6, 10) /\ b > dec(6, 10)
    THEN [disasterType |-> "hurricane",
          confidence   |-> Min(dec(9, 10),
                               dec(6, 10) + (Min3(r, g, b) - dec(6, 10)) * 2)]
    ELSE IF b > r /\ b > g /\ b > dec(4, 10)
    THEN [disasterType |-> "flood",
          confidence   |-> Min(dec(95, 100), dec(5, 10) + (b - Max(r, g)) * 2)]
    ELSE IF r > g /\ r > b /\ r > dec(5, 10)
    THEN [disasterType |-> "fire",
          confidence   |-> Min(dec(95, 100),
                               dec(5, 10) + ((r - Max(g, b)) * 3) \div 2)]
    ELSE IF r > dec(4, 10) /\ g > dec(3, 10) /\ b < dec(3, 10) /\ r > b
    THEN [disasterType |-> "landslide",
          confidence   |-> Min(dec(85, 100),
                               dec(5, 10) + (((r + g) \div 2 - b) * 6) \div 5)]
    ELSE IF Abs(r - g) < dec(1, 10) /\ Abs(g - b) < dec(1, 10) /\ r < dec(5, 10)
    THEN [disasterType |-> "earthquake", confidence |-> dec(7, 10)]
    ELSE IF g > r /\ g > b
    THEN [disasterType |-> "none",
          confidence   |-> Min(dec(9, 10),
                               dec(5, 10) + ((g - Max(r, b)) * 3) \div 2)]
    ELSE [disasterType |-> "none", confidence |-> dec(6, 10)]

\* the rule cascade of analyzeImage: [disasterType, confidence]
classify(r, g, b) ==
    IF b > r /\ b > g /\ b > dec(4, 10)
    THEN [disasterType |-> "flood",
          confidence   |-> Min(dec(95, 100), dec(5, 10) + (b - Max(r, g)) * 2)]
    ELSE IF r > g /\ r > b /\ r > dec(5, 10)
    THEN [disasterType |-> "fire",
          confidence   |-> Min(dec(95, 100),
                               dec(5, 10) + ((r - Max(g, b)) * 3) \div 2)]
    ELSE IF r > dec(6, 10) /\ g > dec(6, 10) /\ b > dec(6, 10)
    THEN [disasterType |-> "hurricane",
          confidence   |-> Min(dec(9, 10),
                               dec(6, 10) + (Min3(r, g, b) - dec(6, 10)) * 2)]
    ELSE IF r > dec(4, 10) /\ g > dec(3, 10) /\ b < dec(3, 10) /\ r > b
    THEN [disasterType |-> "landslide",
          confidence   |-> Min(dec(85, 100),
                               dec(5, 10) + (((r + g) \div 2 - b) * 6) \div 5)]
    ELSE IF Abs(r - g) < dec(1, 10) /\ Abs(g - b) < dec(1, 10) /\ r < dec(5, 10)
    THEN [disasterType |-> "earthquake", confidence |-> dec(7, 10)]
    ELSE IF g > r /\ g > b
    THEN [disasterType |-> "none",
          confidence   |-> Min(dec(9, 10),
                               dec(5, 10) + ((g - Max(r, b)) * 3) \div 2)]
    ELSE [disasterType |-> "none", confidence |-> dec(6, 10)]

\* the four indices of analyzeImage
analysisOf(r, g, b) ==
    [vegetationIndex |-> clamp01(g - (r + b) \div 2),
     waterDetection  |-> clamp01(b - (r + g) \div 2 + dec(3, 10)),
     buildingDamage  |-> clamp01(((r - g) * 3) \div 2),
     fireIntensity   |-> clamp01((r * 7 + (IOne - b) * 3) \div 10)]

\* mutant of estimateAffectedArea: none gets the base area
estimateAffectedArea_baseForNone(analysis, type) ==
    CASE type = "flood"      -> 10 * (IOne + analysis.waterDetection * 50)
      [] type = "fire"       -> 10 * (IOne + analysis.fireIntensity * 30)
      [] type = "earthquake" -> 10 * (IOne + analysis.buildingDamage * 40)
      [] type = "hurricane"  ->
            10 * (IOne + (analysis.waterDetection + analysis.buildingDamage) * 20)
      [] type = "landslide"  -> 10 * (IOne + analysis.buildingDamage * 25)
      [] OTHER               -> 10 * IOne

\* mutant of estimateAffectedArea: a flood uses the multiplier of a fire
estimateAffectedArea_floodAsFire(analysis, type) ==
    CASE type = "flood"      -> 10 * (IOne + analysis.waterDetection * 30)
      [] type = "fire"       -> 10 * (IOne + analysis.fireIntensity * 30)
      [] type = "earthquake" -> 10 * (IOne + analysis.buildingDamage * 40)
      [] type = "hurricane"  ->
            10 * (IOne + (analysis.waterDetection + analysis.buildingDamage) * 20)
      [] type = "landslide"  -> 10 * (IOne + analysis.buildingDamage * 25)
      [] OTHER               -> 0

\* in sq km, on the image scale
estimateAffectedArea(analysis, type) ==
    CASE type = "flood"      -> 10 * (IOne + analysis.waterDetection * 50)
      [] type = "fire"       -> 10 * (IOne + analysis.fireIntensity * 30)
      [] type = "earthquake" -> 10 * (IOne + analysis.buildingDamage * 40)
      [] type = "hurricane"  ->
            10 * (IOne + (analysis.waterDetection + analysis.buildingDamage) * 20)
      [] type = "landslide"  -> 10 * (IOne + analysis.buildingDamage * 25)
      [] OTHER               -> 0

\* Math.ceil(v) of v on the image scale, as an integer
ceilUnits(v) == (v + IOne - 1) \div IOne

\* mutant of imageSeverity: the score is not scaled to 1..5
imageSeverity_unscaled(confidence, analysis, type) ==
    IF type = "none" THEN 0
    ELSE LET severityScore ==
               confidence +
               (CASE type = "flood"      -> (analysis.waterDetection * 3) \div 10
                  [] type = "fire"       -> (analysis.fireIntensity * 4) \div 10
                  [] type = "earthquake" -> (analysis.buildingDamage * 5) \div 10
                  [] type = "hurricane"  ->
                        ((analysis.waterDetection + analysis.buildingDamage) * 2)
                            \div 10
                  [] type = "landslide"  -> (analysis.buildingDamage * 3) \div 10
                  [] OTHER               -> 0)
         IN  Min(5, Max(1, ceilUnits(severityScore)))

\* SatelliteImageAnalyzer.calculateSeverity
imageSeverity(confidence, analysis, type) ==
    IF type = "none" THEN 0
    ELSE LET severityScore ==
               confidence +
               (CASE type = "flood"      -> (analysis.waterDetection * 3) \div 10
                  [] type = "fire"       -> (analysis.fireIntensity * 4) \div 10
                  [] type = "earthquake" -> (analysis.buildingDamage * 5) \div 10
                  [] type = "hurricane"  ->
                        ((analysis.waterDetection + analysis.buildingDamage) * 2)
                            \div 10
                  [] type = "landslide"  -> (analysis.buildingDamage * 3) \div 10
                  [] OTHER               -> 0)
         IN  Min(5, Max(1, ceilUnits(severityScore * 5)))

\* the SatelliteDetection analyzeImage resolves with for channel means r, g, b
analyzeImage(r, g, b) ==
    LET c        == classify(r, g, b)
        analysis == analysisOf(r, g, b)
    IN  [disasterType |-> c.disasterType,
         confidence   |-> c.confidence,
         affectedArea |-> estimateAffectedArea(analysis, c.disasterType),
         severity     |-> imageSeverity(c.confidence, analysis, c.disasterType),
         analysis     |-> analysis]

\* the row analyzeSatelliteImage passes to from('satellite_detections').insert
detectionRow(result) ==
    [disaster_type   |-> result.disasterType,
     confidence      |-> result.confidence,
     affected_area   |-> result.affectedArea,
     severity        |-> result.severity,
     vegetation_index |-> result.analysis.vegetationIndex,
     water_detection |-> result.analysis.waterDetection,
     building_damage |-> result.analysis.buildingDamage,
     fire_intensity  |-> result.analysis.fireIntensity]

\* result.disasterType !== 'none' && result.confidence > 0.5
significant(result) ==
    result.disasterType # "none" /\ result.confidence > dec(5, 10)

\* the row createDisasterFromDetection passes to from('disasters').insert
disasterRow(detection) ==
    [type     |-> IF detection.disasterType = "hurricane" THEN "cyclone"
                  ELSE detection.disasterType,
     severity |-> detection.severity,
     status   |-> "active"]

\* no value: null of the code, or no row handed over
Null == [null |-> TRUE]

(***************************************************************************)
(* Input ranges of the direct calls of calculateConfidence.                *)
(***************************************************************************)
MaxKeywordMatches == 5
MaxUrgencyCount == 4
MaxSentiment == 11
MaxTokens == 101

(***************************************************************************)
(* The posts of the direct analyzePost calls: texts of up to MaxWords      *)
(* phrases of one family, with and without a supplied location.            *)
(***************************************************************************)
MaxWords == 3

TypeWords == << "flood", "flooding", "fire", "smoke", "cyclone", "depression" >>

PlaceWords == << "at goa", "in ooty", "near agra", "pune", "delhi" >>

UrgencyWords == << "urgent", "sos", "help", "rescue", "calm" >>

\* the texts of exactly n phrases of the list words, separated by one space
RECURSIVE phrases(_, _)
phrases(words, n) ==
    IF n = 0 THEN { "" }
    ELSE IF n = 1 THEN { words[i] : i \in 1..Len(words) }
    ELSE { t \o " " \o words[i] : t \in phrases(words, n - 1), i \in 1..Len(words) }

textsOf(words) == UNION { phrases(words, n) : n \in 0..MaxWords }

TextInputs ==
    [id       : { "t1" },
     text     : textsOf(TypeWords) \cup textsOf(PlaceWords) \cup textsOf(UrgencyWords),
     location : { "", "Shimla" },
     score    : { 0 }]

\* the arguments of the direct calculateInitialSeverity calls
SeverityInputs ==
    [urgencyLevel   : { "critical", "high", "medium", "low" },
     sentimentScore : (-MaxSentiment)..MaxSentiment,
     keywordMatches : 0..MaxKeywordMatches]

ConfidenceInputs ==
    [keywordMatches : 0..MaxKeywordMatches,
     urgencyCount   : 0..MaxUrgencyCount,
     sentimentScore : (-MaxSentiment)..MaxSentiment,
     textLength     : 0..MaxTokens]

VARIABLES
    entry,      \* the operation a run exercises: "social", "satellite", "confidence"
    env,        \* the environment Math.random() and Date.now() read
    pc,         \* analyzePosts: "loop" while posts are consumed, "done" once
                \* returned, "rejected" once an exception left it
    posts,      \* the posts of the batch consumed so far (catalogue indices)
    alerts,     \* the Map of analyzePosts
    output,     \* the array analyzePosts returned
    satelliteAnalyzing, \* useState satelliteAnalyzing
    satelliteResult,    \* useState satelliteResult
    detectionInsert,    \* row handed to satellite_detections by the current run
    disasterInsert,     \* row handed to disasters by the current run
    channelMeans,       \* r, g, b analyzeImage computed in the current run
    analysisProgress,   \* useState analysisProgress
    progressTimer,      \* a setTimeout of a finally block is pending
    confidenceArgs,     \* arguments of a direct calculateConfidence call
    confidenceResult,   \* what that call returned
    textArgs,           \* the post of a direct analyzePost call
    textResult,         \* what that call returned
    severityArgs,       \* arguments of a direct calculateInitialSeverity call
    severityResult,     \* what that call returned
    isTraining,         \* ResourceAllocationModel.isTraining
    isTrained,          \* ResourceAllocationModel.isTrained
    stored,             \* browser storage holds a saved model
    loadModelPc,        \* loadModel of the mount effect: "loading", "done"
    modelStatus,        \* useState modelStatus
    loading,            \* useState loading
    trainingProgress,   \* useState trainingProgress
    prediction,         \* useState prediction
    handlePredictPc,    \* position of the handlePredict call in flight
    handleTrainModelPc, \* position of the handleTrainModel call in flight
    evaluations         \* the flags of the model at each model.predict

socialVars == << env, pc, posts, alerts, output >>

satelliteVars ==
    << satelliteAnalyzing, satelliteResult, detectionInsert, disasterInsert,
       channelMeans, analysisProgress, progressTimer >>

confidenceVars == << confidenceArgs, confidenceResult >>

textVars == << textArgs, textResult >>

severityVars == << severityArgs, severityResult >>

mlVars ==
    << isTraining, isTrained, stored, loadModelPc, modelStatus, loading,
       trainingProgress, prediction, handlePredictPc, handleTrainModelPc,
       evaluations >>

vars ==
    << entry, socialVars, satelliteVars, confidenceVars, textVars, severityVars,
       mlVars >>

\* the model instance after its constructor and the predictor component
\* after its mount effect: the status was read and loadModel is awaiting
\* the storage
mounted ==
    /\ isTraining = FALSE
    /\ isTrained = FALSE
    /\ loadModelPc = "loading"
    /\ modelStatus = [isTrained |-> FALSE, isTraining |-> FALSE]
    /\ loading = FALSE
    /\ trainingProgress = FALSE
    /\ prediction = Null
    /\ handlePredictPc = "idle"
    /\ handleTrainModelPc = "idle"
    /\ evaluations = {}

Init ==
    /\ entry \in {"social", "satellite", "confidence", "severity"}
    /\ env \in (IF entry = "social" THEN Envs ELSE {1})
    /\ pc = "loop"
    /\ posts = << >>
    /\ alerts = << >>
    /\ output = << >>
    /\ satelliteAnalyzing = FALSE
    /\ satelliteResult = Null
    /\ detectionInsert = Null
    /\ disasterInsert = Null
    /\ channelMeans = Null
    /\ analysisProgress = ""
    /\ progressTimer = FALSE
    /\ confidenceArgs \in (IF entry = "confidence" THEN ConfidenceInputs ELSE {Null})
    /\ confidenceResult = Null
    /\ textArgs = Null
    /\ textResult = Null
    /\ severityArgs \in (IF entry = "severity" THEN SeverityInputs ELSE {Null})
    /\ severityResult = Null
    /\ stored = FALSE
    /\ mounted

\* one loop iteration of analyzePosts on the next post of the batch; when
\* analyzePost throws, the promise analyzePosts returned is rejected and
\* the Map built so far is lost to the caller
ProcessPost(p) ==
    /\ entry = "social"
    /\ pc = "loop"
    /\ posts' = Append(posts, p)
    /\ IF throws(AllPosts[p])
       THEN /\ pc' = "rejected"
            /\ UNCHANGED alerts
       ELSE /\ alerts' = processPost(alerts, Analysis[p], AllPosts[p].id,
                                      env, Len(posts) + 1)
            /\ UNCHANGED pc
    /\ UNCHANGED << entry, mlVars, env, output, satelliteVars, confidenceVars, textVars, severityVars >>

\* the batch is exhausted: filter, sort, return
Return ==
    /\ entry = "social"
    /\ pc = "loop"
    /\ pc' = "done"
    /\ output' = filterAndSort(alerts)
    /\ UNCHANGED << entry, mlVars, env, posts, alerts, satelliteVars, confidenceVars, textVars, severityVars >>

\* analyzeSatelliteImage up to the await of analyzer.analyzeImage
AnalyzeStart ==
    /\ entry = "satellite"
    /\ ~satelliteAnalyzing
    /\ satelliteAnalyzing' = TRUE
    /\ satelliteResult' = Null
    /\ detectionInsert' = Null
    /\ disasterInsert' = Null
    /\ channelMeans' = Null
    /\ analysisProgress' = "Processing image..."
    /\ UNCHANGED << entry, mlVars, socialVars, confidenceVars, textVars, severityVars, progressTimer >>

\* analyzeImage resolved for an image of channel means r, g, b: the rest of
\* the try block and the finally block
AnalyzeResolve(r, g, b) ==
    /\ entry = "satellite"
    /\ satelliteAnalyzing
    /\ LET result == analyzeImage(r, g, b)
       IN  /\ satelliteResult' = result
           /\ detectionInsert' = detectionRow(result)
           /\ disasterInsert' =
                 IF significant(result) THEN disasterRow(result) ELSE Null
    /\ channelMeans' = [r |-> r, g |-> g, b |-> b]
    /\ analysisProgress' = "Complete!"
    /\ satelliteAnalyzing' = FALSE
    /\ progressTimer' = TRUE
    /\ UNCHANGED << entry, mlVars, socialVars, confidenceVars, textVars, severityVars >>

\* 'Error: ' + error.message for the three messages analyzeImage rejects with
ErrorMessages ==
    { "Error: Failed to read file", "Error: Failed to load image",
      "Error: Canvas not supported" }

\* mutant of AnalyzeReject: the failure is stored as a detection of type none
AnalyzeReject_recordsNone ==
    /\ entry = "satellite"
    /\ satelliteAnalyzing
    /\ analysisProgress' \in ErrorMessages
    /\ detectionInsert' = [disaster_type |-> "none", severity |-> 0]
    /\ satelliteAnalyzing' = FALSE
    /\ progressTimer' = TRUE
    /\ UNCHANGED << entry, mlVars, socialVars, confidenceVars, textVars, severityVars,
                    satelliteResult, disasterInsert, channelMeans >>

\* analyzeImage rejected (file unreadable, image not decodable, no canvas):
\* the catch block and the finally block
AnalyzeReject ==
    /\ entry = "satellite"
    /\ satelliteAnalyzing
    /\ analysisProgress' \in ErrorMessages
    /\ satelliteAnalyzing' = FALSE
    /\ progressTimer' = TRUE
    /\ UNCHANGED << entry, mlVars, socialVars, confidenceVars, textVars, severityVars,
                    satelliteResult, detectionInsert, disasterInsert,
                    channelMeans >>

\* a timer of a finally block fires: setAnalysisProgress(''); timers of
\* earlier runs may still be pending
ClearProgress ==
    /\ entry = "satellite"
    /\ progressTimer
    /\ analysisProgress' = ""
    /\ progressTimer' \in BOOLEAN
    /\ UNCHANGED << entry, mlVars, socialVars, confidenceVars, textVars, severityVars, satelliteAnalyzing,
                    satelliteResult, detectionInsert, disasterInsert,
                    channelMeans >>

\* the direct call of calculateConfidence on the arguments of the run
CallConfidence ==
    /\ entry = "confidence"
    /\ confidenceResult = Null
    /\ confidenceResult' =
          [value |-> calculateConfidence(confidenceArgs.keywordMatches,
                                         confidenceArgs.urgencyCount,
                                         confidenceArgs.sentimentScore,
                                         confidenceArgs.textLength)]
    /\ UNCHANGED << entry, mlVars, socialVars, satelliteVars, confidenceArgs, textVars, severityVars >>

\* the direct call of analyzePost on the post of the run
CallAnalyzePost ==
    /\ entry = "text"
    /\ textResult = Null
    /\ textResult' = analyzePost(textArgs)
    /\ UNCHANGED << entry, mlVars, socialVars, satelliteVars, confidenceVars, textArgs,
                    severityVars >>

\* the direct call of calculateInitialSeverity on the arguments of the run
CallInitialSeverity ==
    /\ entry = "severity"
    /\ severityResult = Null
    /\ severityResult' =
          [value |-> calculateInitialSeverity(severityArgs.urgencyLevel,
                                              severityArgs.sentimentScore,
                                              severityArgs.keywordMatches)]
    /\ UNCHANGED << entry, mlVars, socialVars, satelliteVars, confidenceVars, textVars,
                    severityArgs >>

NextPost ==
    /\ entry = "social"
    /\ pc = "loop"
    /\ Len(posts) < MaxBatch
    /\ \E p \in ShortIds : ProcessPost(p)

NextLongPost ==
    /\ entry = "social"
    /\ pc = "loop"
    /\ Len(posts) < MaxLongBatch
    /\ \E p \in LongIds : ProcessPost(p)

NextFaultyPost ==
    /\ entry = "social"
    /\ pc = "loop"
    /\ Len(posts) < MaxFaultyBatch
    /\ \E p \in FaultyIds : ProcessPost(p)

\* the escalation runs draw from the disaster-related catalogue posts of
\* low urgency, whose alerts start with the lowest severities
EscalateIds ==
    { i \in PostIds :
        Analysis[i].isDisasterRelated /\ Analysis[i].urgencyLevel = "low" }

NextEscalatePost ==
    /\ entry = "social"
    /\ pc = "loop"
    /\ Len(posts) < MaxEscalateBatch
    /\ \E p \in EscalateIds : ProcessPost(p)

NextImage ==
    /\ entry = "satellite"
    /\ satelliteAnalyzing
    /\ \E r \in Channels, g \in Channels, b \in Channels : AnalyzeResolve(r, g, b)

Next ==
    \/ NextPost
    \/ Return
    \/ AnalyzeStart
    \/ NextImage
    \/ AnalyzeReject
    \/ ClearProgress
    \/ CallConfidence
    \/ CallInitialSeverity

NextLong == NextLongPost \/ Return

Spec == Init /\ [][Next]_vars

\* the long runs exercise analyzePosts only
InitLong == Init /\ entry = "social"

SpecLong == InitLong /\ [][NextLong]_vars

\* the faulty runs exercise analyzePosts on batches with an empty or an
\* unreadable post
InitFaulty == Init /\ entry = "social"

NextFaulty == NextFaultyPost \/ Return

SpecFaulty == InitFaulty /\ [][NextFaulty]_vars

\* the escalation runs exercise analyzePosts on posts of low urgency
InitEscalate == Init /\ entry = "social"

NextEscalate == NextEscalatePost \/ Return

SpecEscalate == InitEscalate /\ [][NextEscalate]_vars

\* the text runs call analyzePost on one post
InitText ==
    /\ entry = "text"
    /\ env = 1
    /\ pc = "loop"
    /\ posts = << >>
    /\ alerts = << >>
    /\ output = << >>
    /\ satelliteAnalyzing = FALSE
    /\ satelliteResult = Null
    /\ detectionInsert = Null
    /\ disasterInsert = Null
    /\ channelMeans = Null
    /\ analysisProgress = ""
    /\ progressTimer = FALSE
    /\ confidenceArgs = Null
    /\ confidenceResult = Null
    /\ textArgs \in TextInputs
    /\ textResult = Null
    /\ severityArgs = Null
    /\ severityResult = Null
    /\ stored = FALSE
    /\ mounted

NextText == CallAnalyzePost

SpecText == InitText /\ [][NextText]_vars

(***************************************************************************)
(* The resource predictor: one ResourceAllocationModel shared by the       *)
(* handlers of the component.  Every action is the code that runs between  *)
(* two awaits.                                                             *)
(***************************************************************************)

\* getStatus()
getStatus == [isTrained |-> isTrained, isTraining |-> isTraining]

\* predict up to its first await: an untrained model calls trainModel(),
\* which returns at once when a training is in progress and otherwise
\* starts model.fit; a trained model is evaluated by model.predict
predict ==
    IF ~isTrained
    THEN /\ handlePredictPc' = IF isTraining THEN "predictReturned" ELSE "predictFitting"
         /\ isTraining' = TRUE
         /\ UNCHANGED evaluations
    ELSE /\ evaluations' = evaluations \cup {getStatus}
         /\ handlePredictPc' = "data"
         /\ UNCHANGED isTraining

\* a click on a disaster: handlePredict up to its first await
handlePredict ==
    /\ entry = "ml"
    /\ handlePredictPc = "idle"
    /\ ~loading
    /\ loading' = TRUE
    /\ IF ~modelStatus.isTrained
       THEN /\ trainingProgress' = TRUE
            /\ handlePredictPc' = IF isTraining THEN "returned" ELSE "fitting"
            /\ isTraining' = TRUE
            /\ UNCHANGED evaluations
       ELSE /\ predict
            /\ UNCHANGED trainingProgress
    /\ UNCHANGED << entry, socialVars, satelliteVars, confidenceVars, textVars, severityVars,
                    isTrained, stored, loadModelPc, modelStatus, prediction,
                    handleTrainModelPc >>

\* model.fit of the trainModel(50) of handlePredict resolves
handlePredict_fitResolve ==
    /\ entry = "ml"
    /\ handlePredictPc = "fitting"
    /\ isTrained' = TRUE
    /\ isTraining' = FALSE
    /\ handlePredictPc' = "returned"
    /\ UNCHANGED << entry, socialVars, satelliteVars, confidenceVars, textVars, severityVars,
                    stored, loadModelPc, modelStatus, loading, trainingProgress,
                    prediction, handleTrainModelPc, evaluations >>

\* model.fit of a trainModel called under handlePredict rejects: trainModel
\* clears isTraining and rethrows, handlePredict logs and clears loading
handlePredict_fitReject ==
    /\ entry = "ml"
    /\ handlePredictPc \in {"fitting", "predictFitting"}
    /\ isTraining' = FALSE
    /\ loading' = FALSE
    /\ handlePredictPc' = "idle"
    /\ UNCHANGED << entry, socialVars, satelliteVars, confidenceVars, textVars, severityVars,
                    isTrained, stored, loadModelPc, modelStatus, trainingProgress,
                    prediction, handleTrainModelPc, evaluations >>

\* handlePredict after its await of trainModel(50), up to the first await
\* of predict
handlePredict_afterTrain ==
    /\ entry = "ml"
    /\ handlePredictPc = "returned"
    /\ modelStatus' = getStatus
    /\ trainingProgress' = FALSE
    /\ predict
    /\ UNCHANGED << entry, socialVars, satelliteVars, confidenceVars, textVars, severityVars,
                    isTrained, stored, loadModelPc, loading, prediction,
                    handleTrainModelPc >>

\* model.fit of the trainModel() of predict resolves
predict_fitResolve ==
    /\ entry = "ml"
    /\ handlePredictPc = "predictFitting"
    /\ isTrained' = TRUE
    /\ isTraining' = FALSE
    /\ handlePredictPc' = "predictReturned"
    /\ UNCHANGED << entry, socialVars, satelliteVars, confidenceVars, textVars, severityVars,
                    stored, loadModelPc, modelStatus, loading, trainingProgress,
                    prediction, handleTrainModelPc, evaluations >>

\* predict after its await of trainModel(): model.predict evaluates the
\* network
predict_afterTrain ==
    /\ entry = "ml"
    /\ handlePredictPc = "predictReturned"
    /\ evaluations' = evaluations \cup {getStatus}
    /\ handlePredictPc' = "data"
    /\ UNCHANGED << entry, socialVars, satelliteVars, confidenceVars, textVars, severityVars,
                    isTraining, isTrained, stored, loadModelPc, modelStatus, loading,
                    trainingProgress, prediction, handleTrainModelPc >>

\* prediction.data() resolves: predict returns its result with the
\* confidence in hundredths, handlePredict stores it and clears loading
predict_data ==
    /\ entry = "ml"
    /\ handlePredictPc = "data"
    /\ prediction' = [confidence |-> Min(95, 70 + (IF isTrained THEN 25 ELSE 0))]
    /\ loading' = FALSE
    /\ handlePredictPc' = "idle"
    /\ UNCHANGED << entry, socialVars, satelliteVars, confidenceVars, textVars, severityVars,
                    isTraining, isTrained, stored, loadModelPc, modelStatus,
                    trainingProgress, handleTrainModelPc, evaluations >>

\* a click on the train button: handleTrainModel up to its first await
handleTrainModel ==
    /\ entry = "ml"
    /\ handleTrainModelPc = "idle"
    /\ ~(trainingProgress \/ modelStatus.isTraining)
    /\ trainingProgress' = TRUE
    /\ handleTrainModelPc' = IF isTraining THEN "returned" ELSE "fitting"
    /\ isTraining' = TRUE
    /\ UNCHANGED << entry, socialVars, satelliteVars, confidenceVars, textVars, severityVars,
                    isTrained, stored, loadModelPc, modelStatus, loading, prediction,
                    handlePredictPc, evaluations >>

\* model.fit of the trainModel(100) of handleTrainModel resolves
handleTrainModel_fitResolve ==
    /\ entry = "ml"
    /\ handleTrainModelPc = "fitting"
    /\ isTrained' = TRUE
    /\ isTraining' = FALSE
    /\ handleTrainModelPc' = "returned"
    /\ UNCHANGED << entry, socialVars, satelliteVars, confidenceVars, textVars, severityVars,
                    stored, loadModelPc, modelStatus, loading, trainingProgress,
                    prediction, handlePredictPc, evaluations >>

\* model.fit of the trainModel(100) of handleTrainModel rejects
handleTrainModel_fitReject ==
    /\ entry = "ml"
    /\ handleTrainModelPc = "fitting"
    /\ isTraining' = FALSE
    /\ trainingProgress' = FALSE
    /\ handleTrainModelPc' = "idle"
    /\ UNCHANGED << entry, socialVars, satelliteVars, confidenceVars, textVars, severityVars,
                    isTrained, stored, loadModelPc, modelStatus, loading, prediction,
                    handlePredictPc, evaluations >>

\* handleTrainModel after its await of trainModel(100), up to the await
\* inside saveModel
handleTrainModel_afterTrain ==
    /\ entry = "ml"
    /\ handleTrainModelPc = "returned"
    /\ modelStatus' = getStatus
    /\ handleTrainModelPc' = "saving"
    /\ UNCHANGED << entry, socialVars, satelliteVars, confidenceVars, textVars, severityVars,
                    isTraining, isTrained, stored, loadModelPc, loading,
                    trainingProgress, prediction, handlePredictPc, evaluations >>

\* model.save resolves, handleTrainModel ends
saveModel_resolve ==
    /\ entry = "ml"
    /\ handleTrainModelPc = "saving"
    /\ stored' = TRUE
    /\ trainingProgress' = FALSE
    /\ handleTrainModelPc' = "idle"
    /\ UNCHANGED << entry, socialVars, satelliteVars, confidenceVars, textVars, severityVars,
                    isTraining, isTrained, loadModelPc, modelStatus, loading,
                    prediction, handlePredictPc, evaluations >>

\* model.save rejects, handleTrainModel logs and ends
saveModel_reject ==
    /\ entry = "ml"
    /\ handleTrainModelPc = "saving"
    /\ trainingProgress' = FALSE
    /\ handleTrainModelPc' = "idle"
    /\ UNCHANGED << entry, socialVars, satelliteVars, confidenceVars, textVars, severityVars,
                    isTraining, isTrained, stored, loadModelPc, modelStatus, loading,
                    prediction, handlePredictPc, evaluations >>

\* tf.loadLayersModel of the mount effect finds the saved model: loadModel
\* sets isTrained and the effect reads the status again
loadModel_resolve ==
    /\ entry = "ml"
    /\ loadModelPc = "loading"
    /\ stored
    /\ isTrained' = TRUE
    /\ modelStatus' = [isTrained |-> TRUE, isTraining |-> isTraining]
    /\ loadModelPc' = "done"
    /\ UNCHANGED << entry, socialVars, satelliteVars, confidenceVars, textVars, severityVars,
                    isTraining, stored, loading, trainingProgress, prediction,
                    handlePredictPc, handleTrainModelPc, evaluations >>

\* tf.loadLayersModel finds no saved model: loadModel logs and the effect
\* reads the status again
loadModel_reject ==
    /\ entry = "ml"
    /\ loadModelPc = "loading"
    /\ ~stored
    /\ modelStatus' = getStatus
    /\ loadModelPc' = "done"
    /\ UNCHANGED << entry, socialVars, satelliteVars, confidenceVars, textVars, severityVars,
                    isTraining, isTrained, stored, loading, trainingProgress,
                    prediction, handlePredictPc, handleTrainModelPc, evaluations >>

\* the predictor runs: the storage of the browser may hold a model saved by
\* an earlier session
InitML ==
    /\ entry = "ml"
    /\ env = 1
    /\ pc = "loop"
    /\ posts = << >>
    /\ alerts = << >>
    /\ output = << >>
    /\ satelliteAnalyzing = FALSE
    /\ satelliteResult = Null
    /\ detectionInsert = Null
    /\ disasterInsert = Null
    /\ channelMeans = Null
    /\ analysisProgress = ""
    /\ progressTimer = FALSE
    /\ confidenceArgs = Null
    /\ confidenceResult = Null
    /\ textArgs = Null
    /\ textResult = Null
    /\ severityArgs = Null
    /\ severityResult = Null
    /\ stored \in BOOLEAN
    /\ mounted

NextML ==
    \/ handlePredict
    \/ handlePredict_fitResolve
    \/ handlePredict_fitReject
    \/ handlePredict_afterTrain
    \/ predict_fitResolve
    \/ predict_afterTrain
    \/ predict_data
    \/ handleTrainModel
    \/ handleTrainModel_fitResolve
    \/ handleTrainModel_fitReject
    \/ handleTrainModel_afterTrain
    \/ saveModel_resolve
    \/ saveModel_reject
    \/ loadModel_resolve
    \/ loadModel_reject

SpecML == InitML /\ [][NextML]_vars

(***************************************************************************)
(* Properties.                                                             *)
(***************************************************************************)
Values == valuesOf(alerts)

\* the (disasterType, location) pair a post yields
pairOf(p) == << Analysis[p].disasterType, Analysis[p].location >>

alertPair(a) == << a.disasterType, a.location >>

\* the catalogue index of the post with identifier id
postOfId(id) == CHOOSE p \in PostIds : Catalogue[p].id = id

\* positions of the batch whose post is disaster-related and yields pair k
postsOfPair(k) ==
    { n \in 1..Len(posts) :
        Analysis[posts[n]].isDisasterRelated /\ pairOf(posts[n]) = k }

alertsOfPair(k) == { i \in 1..Len(Values) : alertPair(Values[i]) = k }

Pairs == { pairOf(p) : p \in PostIds }

\* C1: the map never holds two alerts for one (disasterType, location) pair,
\* and when exactly two disaster-related posts of the batch so far yield the
\* same pair, they are merged in one alert whose reportCount is 2.
C1_MergedNotDuplicated ==
    \A k \in Pairs :
        /\ Cardinality(alertsOfPair(k)) <= 1
        /\ Cardinality(postsOfPair(k)) = 2 =>
              \E i \in alertsOfPair(k) : Values[i].reportCount = 2

\* C1 witness: two posts of one pair have been merged, beside another alert
C1_Witness ==
    /\ Len(alerts) >= 2
    /\ \E k \in Pairs :
          /\ Cardinality(postsOfPair(k)) = 2
          /\ \E i \in alertsOfPair(k) : Values[i].reportCount = 2

\* the pair with the location name normalised to lower case
normalPair(type, location) == << type, toLowerCase(location) >>

NormalPairs == { normalPair(Analysis[p].disasterType, Analysis[p].location) : p \in PostIds }

\* C2: posts of one disasterType whose location names differ only in letter
\* case map to one key: the map never holds two alerts whose disasterType
\* agrees and whose location names agree up to letter case.
C2_NormalizedKeyOneAlert ==
    \A k \in NormalPairs :
        Cardinality({ i \in 1..Len(Values) :
            normalPair(Values[i].disasterType, Values[i].location) = k }) <= 1

\* C3: every merge sets confidence to min(1, confidence + 0.05); confidence
\* of an alert never decreases and stays 1 once it is 1.
C3_MergeConfidence ==
    [][ /\ Len(alerts') >= Len(alerts)
        /\ \A i \in 1..Len(alerts) :
              LET old == alerts[i].value
                  new == alerts'[i].value
              IN  /\ new.reportCount # old.reportCount =>
                        /\ new.reportCount = old.reportCount + 1
                        /\ new.confidence =
                              (IF old.confidence + 5 > 100 THEN 100
                               ELSE old.confidence + 5)
                  /\ new.confidence >= old.confidence
                  /\ old.confidence = 100 => new.confidence = 100 ]_vars

\* C3 witness: an alert whose confidence was raised by merges until the cap
\* cut the last increment (62 + 8 * 0.05 > 1)
C3_Witness ==
    \E i \in 1..Len(Values) :
        /\ Values[i].confidence = 100
        /\ Values[i].reportCount >= 2
        /\ Analysis[postOfId(Values[i].sources[1])].confidence
              + 5 * (Values[i].reportCount - 1) > 100

\* C4: every computed confidence is in [0,1]: the result of a direct
\* calculateConfidence call, the confidence of the analysis of every post
\* consumed, of every alert in the map, and of every image classification.
C4_ConfidenceInUnitInterval ==
    /\ confidenceResult # Null =>
          confidenceResult.value >= 0 /\ confidenceResult.value <= 100
    /\ \A n \in 1..Len(posts) :
          Analysis[posts[n]].confidence >= 0 /\ Analysis[posts[n]].confidence <= 100
    /\ \A i \in 1..Len(Values) :
          Values[i].confidence >= 0 /\ Values[i].confidence <= 100
    /\ satelliteResult # Null =>
          satelliteResult.confidence >= 0 /\ satelliteResult.confidence <= Grid * 10000

\* C4 witness: a call in which every term of calculateConfidence is at its
\* cap and the sum is exactly 1
C4_Witness ==
    /\ confidenceResult # Null
    /\ confidenceArgs.keywordMatches > 4
    /\ confidenceArgs.urgencyCount > 3
    /\ confidenceArgs.sentimentScore < -10
    /\ confidenceResult.value = 100

\* C5: once the batch has been merged and analyzePosts has returned, an
\* alert of the map is in the output iff its reportCount is at least 2 or its
\* urgencyLevel is critical, and the output holds nothing else.
C5_PublicationFilter ==
    pc = "done" =>
        /\ \A i \in 1..Len(Values) :
              (\E j \in 1..Len(output) : output[j] = Values[i])
              <=> (Values[i].reportCount >= 2 \/ Values[i].urgencyLevel = "critical")
        /\ \A j \in 1..Len(output) : \E i \in 1..Len(Values) : output[j] = Values[i]
        /\ \A j, k \in 1..Len(output) : output[j] = output[k] => j = k

\* C5 witness: the returned batch left one alert with a single medium report
\* out, and kept an alert that got its second report and a critical alert
\* with a single report
C5_Witness ==
    /\ pc = "done"
    /\ \E i \in 1..Len(Values) :
          /\ Values[i].reportCount = 1
          /\ Values[i].urgencyLevel = "medium"
          /\ \A j \in 1..Len(output) : output[j] # Values[i]
    /\ \E j \in 1..Len(output) :
          output[j].reportCount = 2 /\ output[j].urgencyLevel # "critical"
    /\ \E j \in 1..Len(output) :
          output[j].reportCount = 1 /\ output[j].urgencyLevel = "critical"

\* position in the map (creation order) of an alert of the output
createdAt(a) == CHOOSE i \in 1..Len(Values) : Values[i] = a

\* C6: the returned alerts are in descending order of confidence, and
\* returned alerts of equal confidence are in the order of their creation.
C6_OutputOrder ==
    pc = "done" =>
        \A j, k \in 1..Len(output) :
            j < k =>
                /\ output[j].confidence >= output[k].confidence
                /\ output[j].confidence = output[k].confidence =>
                      createdAt(output[j]) < createdAt(output[k])

\* C6 witness: two returned alerts of equal confidence, and a third one of
\* another confidence
C6_Witness ==
    /\ pc = "done"
    /\ \E j, k \in 1..Len(output) :
          j < k /\ output[j].confidence = output[k].confidence
    /\ \E j, k \in 1..Len(output) :
          output[j].confidence > output[k].confidence

\* no keyword of any of the seven categories occurs in the lowercased text
NoKeyword(text) ==
    LET lower == toLowerCase(text)
    IN  \A c \in 1..Len(disasterKeywords) :
            \A n \in 1..Len(disasterKeywords[c].keywords) :
                ~includes(lower, disasterKeywords[c].keywords[n])

\* the catalogue posts without any keyword
NoKeywordPosts == { p \in PostIds : NoKeyword(Catalogue[p].text) }

\* C7: a post whose lowercased text holds no keyword of any category is
\* reported not disaster-related, and consuming it leaves the map as it was.
C7_NoKeywordNoEffect ==
    [][ \A p \in NoKeywordPosts :
          posts' = Append(posts, p) =>
              /\ ~Analysis[p].isDisasterRelated
              /\ alerts' = alerts ]_vars

\* C7 witness: a post without keywords was consumed after an alert existed
C7_Witness ==
    /\ Len(posts) >= 2
    /\ posts[Len(posts)] \in NoKeywordPosts
    /\ Len(alerts) >= 1

\* C8: the severity of every alert of the map, and of every returned alert,
\* is an integer in 1..5; an alert with at least 10 reports and a running
\* sentimentScore below -10 has severity 5.
C8_AlertSeverityRange ==
    /\ \A i \in 1..Len(Values) :
          /\ Values[i].severity \in 1..5
          /\ (Values[i].reportCount >= 10
              /\ Values[i].sentimentScore.num < -10 * Values[i].sentimentScore.den)
             => Values[i].severity = 5
    /\ \A j \in 1..Len(output) : output[j].severity \in 1..5

\* C8 witness: an alert created with severity 3 has 10 reports and a running
\* sentimentScore below -10
C8_Witness ==
    \E i \in 1..Len(Values) :
        /\ Values[i].reportCount = 10
        /\ Values[i].sentimentScore.num < -10 * Values[i].sentimentScore.den
        /\ Analysis[postOfId(Values[i].sources[1])].severity = 3
        /\ Values[i].severity = 5

\* C9: a classified signal (disasterType set) has severity in 1..5; an
\* unclassified signal has severity 0 and leads to no alert or disaster
\* record: a post with no winning category is the source of no alert, an
\* image classified none has severity 0 and no disasters row is created.
C9_SignalSeverity ==
    /\ \A n \in 1..Len(posts) :
          LET a == Analysis[posts[n]]
          IN  /\ a.disasterType # "null" => a.severity \in 1..5
              /\ a.disasterType = "null" =>
                    /\ a.severity = 0
                    /\ \A i \in 1..Len(Values) :
                          \A m \in 1..Len(Values[i].sources) :
                              Values[i].sources[m] # Catalogue[posts[n]].id
    /\ satelliteResult # Null =>
          /\ satelliteResult.disasterType # "none" =>
                satelliteResult.severity \in 1..5
          /\ satelliteResult.disasterType = "none" =>
                satelliteResult.severity = 0 /\ disasterInsert = Null

\* C10: every row handed to the satellite_detections insert has an integer
\* severity in 1..5, images classified none included.
C10_DetectionRowSeverity ==
    detectionInsert # Null => detectionInsert.severity \in 1..5

\* the identifiers of the batch's disaster-related posts whose key is key, in
\* batch order
RECURSIVE contributors(_, _)
contributors(key, n) ==
    IF n = 0 THEN << >>
    ELSE LET rest == contributors(key, n - 1)
             a    == Analysis[posts[n]]
         IN  IF a.isDisasterRelated /\ keyOf(a) = key
             THEN Append(rest, Catalogue[posts[n]].id)
             ELSE rest

\* C11: every alert has reportCount >= 1, reportCount equals the length of
\* sources, and sources holds the identifiers of the posts that contributed
\* to the alert in the order of the input batch, the creating post first.
C11_SourcesAreContributors ==
    \A i \in 1..Len(alerts) :
        LET a == alerts[i].value
        IN  /\ a.reportCount >= 1
            /\ a.reportCount = Len(a.sources)
            /\ a.sources = contributors(alerts[i].key, Len(posts))

\* C11 witness: an alert merged from three posts, the creating post and the
\* second contributor being different posts, with a post of another key
\* between them in the batch
C11_Witness ==
    \E i \in 1..Len(alerts) :
        LET a == alerts[i].value
        IN  /\ a.reportCount = 3
            /\ a.sources[1] # a.sources[2]
            /\ \E n \in 2..Len(posts) :
                  /\ Catalogue[posts[1]].id = a.sources[1]
                  /\ Catalogue[posts[n]].id = a.sources[2]
                  /\ \E m \in 2..(n - 1) : keyOf(Analysis[posts[m]]) # alerts[i].key

\* the Map analyzePosts builds from the posts of the batch it can analyze
RECURSIVE aggregateReadable(_)
aggregateReadable(n) ==
    IF n = 0 THEN << >>
    ELSE IF throws(AllPosts[posts[n]]) THEN aggregateReadable(n - 1)
    ELSE processPost(aggregateReadable(n - 1), Analysis[posts[n]],
                     AllPosts[posts[n]].id, env, n)

\* C12: a post without text or with empty text is skipped and does not
\* abort the batch: analyzePosts is never rejected, the Map holds what the
\* other posts of the batch so far produce, and the alerts returned are the
\* published ones of that Map.
C12_FaultyPostSkipped ==
    /\ pc # "rejected"
    /\ alerts = aggregateReadable(Len(posts))
    /\ pc = "done" => output = filterAndSort(aggregateReadable(Len(posts)))

\* C13: when analyzeImage fails on an image (the run ends with no result),
\* the failure is flagged by an error message, no row is handed to
\* satellite_detections or to disasters, nothing is shown as a detection,
\* the analyzing flag is false again, and whenever the flag is false a
\* further image can be analyzed.
C13_FailedImageIsolated ==
    /\ [][ (satelliteAnalyzing /\ ~satelliteAnalyzing' /\ satelliteResult' = Null) =>
              /\ analysisProgress' \in ErrorMessages
              /\ detectionInsert' = Null
              /\ disasterInsert' = Null ]_vars
    /\ [][ (satelliteAnalyzing /\ analysisProgress' \in ErrorMessages) =>
              /\ ~satelliteAnalyzing'
              /\ satelliteResult' = Null
              /\ detectionInsert' = Null
              /\ disasterInsert' = Null ]_vars
    /\ []((entry = "satellite" /\ ~satelliteAnalyzing) => ENABLED AnalyzeStart)

\* C13 witness: the run on an image has ended in the catch block, the error
\* message is still displayed
C13_Witness ==
    /\ analysisProgress \in ErrorMessages
    /\ ~satelliteAnalyzing
    /\ satelliteResult = Null
    /\ progressTimer

\* the Map a run of analyzePosts in environment e builds from the first n
\* posts of the batch
RECURSIVE runIn(_, _)
runIn(e, n) ==
    IF n = 0 THEN << >>
    ELSE processPost(runIn(e, n - 1), Analysis[posts[n]],
                     AllPosts[posts[n]].id, e, n)

\* C14: analyzePosts is deterministic in its batch: whatever the environment
\* of a second run on the same batch, it returns the alerts this run
\* returned, equal in every field (id, coordinates and affectedPopulation
\* included).
C14_SameBatchSameAlerts ==
    pc = "done" =>
        \A e \in Envs : filterAndSort(runIn(e, Len(posts))) = output

\* the lower-cased text of the direct analyzePost call
calledText == toLowerCase(textArgs.text)

\* number of keywords of category i that are substrings of text
matchCount(text, i) ==
    Cardinality({ k \in 1..Len(disasterKeywords[i].keywords) :
                    includes(text, disasterKeywords[i].keywords[k]) })

Categories == 1..Len(disasterKeywords)

\* C15: analyzePost selects the category with the greatest number of matched
\* keywords, and among categories with that number the first in the order
\* flood, fire, earthquake, hurricane, landslide, cyclone, tsunami; a text
\* without any keyword gets no category.
C15_FirstGreatestCategory ==
    textResult # Null =>
        LET count == [i \in Categories |-> matchCount(calledText, i)]
        IN  IF \A i \in Categories : count[i] = 0
            THEN textResult.disasterType = "null"
            ELSE \E i \in Categories :
                    /\ textResult.disasterType = disasterKeywords[i].type
                    /\ \A j \in Categories : count[j] <= count[i]
                    /\ \A j \in Categories : j < i => count[j] < count[i]
                    /\ << "flood", "fire", "earthquake", "hurricane", "landslide",
                          "cyclone", "tsunami" >>[i] = disasterKeywords[i].type

\* C15 witness: flood and fire have two matches each and flood is selected
C15_Witness ==
    /\ textResult # Null
    /\ textResult.disasterType = "flood"
    /\ matchCount(calledText, 1) = 2
    /\ matchCount(calledText, 2) = 2

\* the least element of a non-empty set of numbers
least(S) == CHOOSE i \in S : \A j \in S : i <= j

\* C16: extractLocation returns a non-empty supplied location unchanged;
\* otherwise the first gazetteer name, in table order, that is a substring
\* of the lower-cased text, capitalised; otherwise the word captured by the
\* first of the patterns 'in X', 'at X', 'from X', 'near X', in that order,
\* that matches anywhere in the text, capitalised; otherwise
\* 'Unknown Location'.
C16_LocationPriority ==
    textResult # Null =>
        LET cities   == { i \in 1..Len(indianCities) :
                            includes(calledText, indianCities[i]) }
            patterns == { i \in 1..Len(locationPatterns) :
                            patternHits(calledText, locationPatterns[i]) # {} }
        IN  /\ locationPatterns = << "in ", "at ", "from ", "near " >>
            /\ textResult.location =
                  (IF textArgs.location # "" THEN textArgs.location
                   ELSE IF cities # {} THEN capitalize(indianCities[least(cities)])
                   ELSE IF patterns # {}
                        THEN capitalize(patternCapture(calledText,
                                           locationPatterns[least(patterns)]))
                        ELSE "Unknown Location")

\* C16 witness: 'at goa' comes first in the text and 'in ooty' wins
C16_Witness ==
    /\ textResult # Null
    /\ textArgs.location = ""
    /\ textArgs.text = "at goa in ooty"
    /\ textResult.location = "Ooty"

\* the urgency lexicon entries that occur in the text of the call
urgencyEntries ==
    { k \in { urgencyKeywords[i] : i \in 1..Len(urgencyKeywords) } :
        includes(calledText, k) }

\* C17: the urgency level depends on the number of distinct urgency lexicon
\* entries that are substrings of the lower-cased text: three or more give
\* critical, two give high, one gives medium, none gives low; an entry that
\* occurs several times counts once.
C17_UrgencyLevels ==
    textResult # Null =>
        LET n == Cardinality(urgencyEntries)
        IN  /\ n >= 3 => textResult.urgencyLevel = "critical"
            /\ n = 2 => textResult.urgencyLevel = "high"
            /\ n = 1 => textResult.urgencyLevel = "medium"
            /\ n = 0 => textResult.urgencyLevel = "low"

\* C17 witness: one entry occurs three times and the level is medium
C17_Witness ==
    /\ textResult # Null
    /\ textArgs.text = "urgent urgent urgent"
    /\ textResult.urgencyLevel = "medium"

\* C18: calculateConfidence returns, in hundredths,
\* min(100, 10*min(4, matches) + 10*min(3, urgency hits)
\*          + (2*min(10, -s) if s < 0) + (10 if 10 <= tokens <= 100)):
\* the keyword part saturates at 4 matches, the urgency part at 3 hits, the
\* sentiment part at s <= -10, and the length bonus is given exactly on the
\* closed interval 10..100.
C18_ConfidenceFormula ==
    confidenceResult # Null =>
        LET km == confidenceArgs.keywordMatches
            uh == confidenceArgs.urgencyCount
            s  == confidenceArgs.sentimentScore
            t  == confidenceArgs.textLength
            keywordPart   == IF km >= 4 THEN 40 ELSE 10 * km
            urgencyPart   == IF uh >= 3 THEN 30 ELSE 10 * uh
            sentimentPart == IF s >= 0 THEN 0 ELSE IF s <= -10 THEN 20 ELSE -2 * s
            lengthPart    == IF t \in 10..100 THEN 10 ELSE 0
            sum == keywordPart + urgencyPart + sentimentPart + lengthPart
        IN  confidenceResult.value = (IF sum > 100 THEN 100 ELSE sum)

\* C18 witness: a call at the upper end of the length interval, past the
\* saturation point of the sentiment part, below those of the other parts
C18_Witness ==
    /\ confidenceResult # Null
    /\ confidenceArgs.textLength = 100
    /\ confidenceArgs.sentimentScore = -11
    /\ confidenceArgs.keywordMatches = 2
    /\ confidenceArgs.urgencyCount = 1
    /\ confidenceResult.value = 60

\* C19: the initial severity is the urgency base (critical 5, high 4,
\* medium 3, low 2), plus 1 capped at 5 when the sentiment score is below
\* -5, plus 1 capped at 5 when the winning category has at least 3 matched
\* keywords; the result is always in 2..5.
C19_InitialSeverity ==
    severityResult # Null =>
        LET base == [critical |-> 5, high |-> 4, medium |-> 3, low |-> 2]
                        [severityArgs.urgencyLevel]
            steps == (IF severityArgs.sentimentScore < -5 THEN 1 ELSE 0)
                     + (IF severityArgs.keywordMatches >= 3 THEN 1 ELSE 0)
        IN  /\ severityResult.value = (IF base + steps > 5 THEN 5 ELSE base + steps)
            /\ severityResult.value \in 2..5

\* C19 witness: both adjustments apply to a high urgency and the cap cuts
\* the second one
C19_Witness ==
    /\ severityResult # Null
    /\ severityArgs.urgencyLevel = "high"
    /\ severityArgs.sentimentScore = -6
    /\ severityArgs.keywordMatches = 3
    /\ severityResult.value = 5

\* C20: a merge sets sentimentScore to (old + incoming) / 2 and recomputes
\* severity from the reportCount it has just incremented and the sentiment
\* it has just averaged: starting from the current severity, +1 capped at 5
\* when reportCount >= 10, otherwise +0.5 capped at 5 when reportCount >= 5,
\* then +1 capped at 5 when sentimentScore < -10, and the result rounded up.
\* Sentiment is compared as the fraction num/den, severity is counted in
\* halves.
C20_MergeSentimentSeverity ==
    [][ \A i \in 1..Len(alerts) :
          LET old == alerts[i].value
              new == alerts'[i].value
              incoming == Analysis[posts'[Len(posts')]].sentimentScore
              count == old.reportCount + 1
              byCount == IF count >= 10 THEN 2 ELSE IF count >= 5 THEN 1 ELSE 0
              afterCount == IF 2 * old.severity + byCount > 10 THEN 10
                            ELSE 2 * old.severity + byCount
              bySentiment == IF new.sentimentScore.num < -10 * new.sentimentScore.den
                             THEN 2 ELSE 0
              halves == IF afterCount + bySentiment > 10 THEN 10
                        ELSE afterCount + bySentiment
          IN  new.reportCount # old.reportCount =>
                /\ new.reportCount = count
                /\ new.sentimentScore.num * 2 * old.sentimentScore.den =
                      (old.sentimentScore.num + incoming * old.sentimentScore.den)
                         * new.sentimentScore.den
                /\ 2 * new.severity \in { halves, halves + 1 } ]_vars

\* C20 witness: the fifth report has raised a severity of 3 by a half that
\* was rounded up to 4, the averaged sentiment being no less than -10
C20_Witness ==
    \E i \in 1..Len(alerts) :
        LET a == alerts[i].value
        IN  /\ a.reportCount = 5
            /\ a.severity = 4
            /\ a.sentimentScore.num >= -10 * a.sentimentScore.den
            /\ Analysis[postOfId(a.sources[1])].severity = 3

\* the six rules of the cascade on the channel means of the current run, in
\* the order they are written, and the type each gives
ruleHolds ==
    LET r == channelMeans.r
        g == channelMeans.g
        b == channelMeans.b
    IN  << b > r /\ b > g /\ 10 * b > 4 * IOne,
           r > g /\ r > b /\ 10 * r > 5 * IOne,
           10 * r > 6 * IOne /\ 10 * g > 6 * IOne /\ 10 * b > 6 * IOne,
           10 * r > 4 * IOne /\ 10 * g > 3 * IOne /\ 10 * b < 3 * IOne /\ r > b,
           /\ 10 * (r - g) < IOne /\ 10 * (g - r) < IOne
           /\ 10 * (g - b) < IOne /\ 10 * (b - g) < IOne /\ 10 * r < 5 * IOne,
           g > r /\ g > b >>

ruleType == << "flood", "fire", "hurricane", "landslide", "earthquake", "none" >>

rulesHolding == { i \in 1..6 : ruleHolds[i] }

\* C21: the classifier applies its six rules in fixed priority and the first
\* rule that holds decides the type (flood, fire, hurricane, landslide,
\* earthquake, none for green-dominant), and the confidence respects the cap
\* of the type: flood and fire at most 0.95, hurricane at most 0.90,
\* landslide at most 0.85, earthquake exactly 0.7, none at most 0.9.
C21_CascadePriorityAndCaps ==
    satelliteResult # Null =>
        LET type == satelliteResult.disasterType
            c    == satelliteResult.confidence
        IN  /\ rulesHolding # {} => type = ruleType[least(rulesHolding)]
            /\ type \in { "flood", "fire" } => 100 * c <= 95 * IOne
            /\ type = "hurricane" => 100 * c <= 90 * IOne
            /\ type = "landslide" => 100 * c <= 85 * IOne
            /\ type = "earthquake" => 100 * c = 70 * IOne
            /\ type = "none" => 100 * c <= 90 * IOne

\* C21 witness: the flood rule and the hurricane rule both hold, the image
\* is a flood and its confidence is cut at the cap 0.95
C21_Witness ==
    /\ satelliteResult # Null
    /\ { 1, 3 } \subseteq rulesHolding
    /\ satelliteResult.disasterType = "flood"
    /\ 100 * satelliteResult.confidence = 95 * IOne

\* twice a value v of the image scale, cut to [0, 2]
clampTwice(v) == IF v < 0 THEN 0 ELSE IF v > 2 * IOne THEN 2 * IOne ELSE v

\* twice the indices the claim defines, from the channel means of the run:
\* water = clamp01(b - (r+g)/2 + 0.3), buildingDamage = clamp01((r-g)*1.5),
\* fireIntensity = clamp01(0.7r + 0.3(1-b))
twiceWater ==
    clampTwice(2 * channelMeans.b - (channelMeans.r + channelMeans.g)
               + (6 * IOne) \div 10)

twiceBuildingDamage == clampTwice(3 * (channelMeans.r - channelMeans.g))

twiceFireIntensity ==
    clampTwice((14 * channelMeans.r + 6 * (IOne - channelMeans.b)) \div 10)

\* C22: affectedArea is 10 * (1 + index * multiplier), with (water, 50) for
\* flood, (fireIntensity, 30) for fire, (buildingDamage, 40) for earthquake,
\* (water + buildingDamage, 20) for hurricane, (buildingDamage, 25) for
\* landslide, and 0 for none; the channel means 0.2, 0.2, 0.6 give flood
\* with confidence 0.95 and affectedArea 360.  Areas are compared doubled.
C22_AffectedArea ==
    satelliteResult # Null =>
        LET type == satelliteResult.disasterType
            expected ==
                CASE type = "flood"      -> 10 * (2 * IOne + twiceWater * 50)
                  [] type = "fire"       -> 10 * (2 * IOne + twiceFireIntensity * 30)
                  [] type = "earthquake" -> 10 * (2 * IOne + twiceBuildingDamage * 40)
                  [] type = "hurricane"  ->
                        10 * (2 * IOne + (twiceWater + twiceBuildingDamage) * 20)
                  [] type = "landslide"  -> 10 * (2 * IOne + twiceBuildingDamage * 25)
                  [] type = "none"       -> 0
        IN  /\ 2 * satelliteResult.affectedArea = expected
            /\ ( /\ 10 * channelMeans.r = 2 * IOne
                 /\ 10 * channelMeans.g = 2 * IOne
                 /\ 10 * channelMeans.b = 6 * IOne ) =>
                    /\ type = "flood"
                    /\ 100 * satelliteResult.confidence = 95 * IOne
                    /\ satelliteResult.affectedArea = 360 * IOne

\* C22 witness: the image with channel means 0.2, 0.2, 0.6 has been analyzed
C22_Witness ==
    /\ satelliteResult # Null
    /\ 10 * channelMeans.r = 2 * IOne
    /\ 10 * channelMeans.g = 2 * IOne
    /\ 10 * channelMeans.b = 6 * IOne
    /\ satelliteResult.affectedArea = 360 * IOne

\* sum of reportCount over the first n entries of the Map
RECURSIVE reportSum(_)
reportSum(n) == IF n = 0 THEN 0 ELSE reportSum(n - 1) + alerts[n].value.reportCount

\* positions of the batch so far whose post is disaster-related
relatedPositions == { n \in 1..Len(posts) : Analysis[posts[n]].isDisasterRelated }

\* the identifiers in the sources of entry i of the Map
sourceIds(i) ==
    { alerts[i].value.sources[m] : m \in 1..Len(alerts[i].value.sources) }

\* C23: after any prefix of a batch the sum of reportCount over all alerts
\* of the Map equals the number of disaster-related posts of the prefix, and
\* each such post is in the sources of exactly one alert, the alert of its
\* own key.
C23_ReportsConserved ==
    /\ reportSum(Len(alerts)) = Cardinality(relatedPositions)
    /\ \A n \in relatedPositions :
          /\ Cardinality({ i \in 1..Len(alerts) :
                             AllPosts[posts[n]].id \in sourceIds(i) }) = 1
          /\ \A i \in 1..Len(alerts) :
                AllPosts[posts[n]].id \in sourceIds(i) =>
                    alerts[i].key = keyOf(Analysis[posts[n]])

\* C23 witness: four disaster-related posts and one unrelated post have
\* been consumed and the Map holds at least two alerts, one of them merged
C23_Witness ==
    /\ Len(posts) = 5
    /\ Cardinality(relatedPositions) = 4
    /\ Len(alerts) >= 2
    /\ \E i \in 1..Len(alerts) : alerts[i].value.reportCount >= 2

\* the fields of an alert a merge leaves alone
frameOf(a) ==
    [id |-> a.id, disasterType |-> a.disasterType, location |-> a.location,
     coordinates |-> a.coordinates, urgencyLevel |-> a.urgencyLevel,
     keywords |-> a.keywords, affectedPopulation |-> a.affectedPopulation,
     timestamp |-> a.timestamp]

\* C24: a merge changes only reportCount, sources, confidence,
\* sentimentScore and severity of the alert: id, disasterType, location,
\* coordinates, urgencyLevel, keywords, affectedPopulation and timestamp
\* stay those of the first post of the key; the new confidence is the old
\* one plus 0.05 capped at 1 whatever the incoming post's own confidence;
\* every other alert of the Map is unchanged.
C24_MergeFrame ==
    [][ \A i \in 1..Len(alerts) :
          LET old   == alerts[i].value
              new   == alerts'[i].value
              first == Analysis[postOfId(new.sources[1])]
          IN  IF new.reportCount # old.reportCount
              THEN /\ frameOf(new) = frameOf(old)
                   /\ new.disasterType = first.disasterType
                   /\ new.location = first.location
                   /\ new.urgencyLevel = first.urgencyLevel
                   /\ new.keywords = first.keywords
                   /\ new.confidence =
                         (IF old.confidence + 5 > 100 THEN 100
                          ELSE old.confidence + 5)
                   /\ \A j \in 1..Len(alerts) : j # i => alerts'[j] = alerts[j]
                   /\ Len(alerts') = Len(alerts)
              ELSE alerts'[i] = alerts[i] ]_vars

\* C24 witness: a critical post with other keywords and another confidence
\* has been merged into an alert a medium post created, beside another alert
C24_Witness ==
    /\ Len(alerts) >= 2
    /\ \E i \in 1..Len(alerts) :
          LET a        == alerts[i].value
              first    == Analysis[postOfId(a.sources[1])]
              incoming == Analysis[postOfId(a.sources[2])]
          IN  /\ a.reportCount = 2
              /\ a.urgencyLevel = "medium"
              /\ incoming.urgencyLevel = "critical"
              /\ incoming.keywords # a.keywords
              /\ incoming.confidence # first.confidence

\* C25: the severity of an alert never decreases across merges; a merge that
\* brings reportCount to 5..9 raises a severity below 5 by a full level; and
\* every alert with reportCount >= 7 has severity exactly 5, whatever its
\* initial severity and sentiment.
C25_SeverityEscalates ==
    /\ [][ \A i \in 1..Len(alerts) :
              LET old == alerts[i].value
                  new == alerts'[i].value
              IN  /\ new.severity >= old.severity
                  /\ ( /\ new.reportCount = old.reportCount + 1
                       /\ new.reportCount \in 5..9
                       /\ old.severity < 5 ) => new.severity >= old.severity + 1 ]_vars
    /\ [](\A i \in 1..Len(alerts) :
             alerts[i].value.reportCount >= 7 => alerts[i].value.severity = 5)

\* C25 witness: an alert that started with severity 2 and whose averaged
\* sentiment never went below -10 has severity 5 at its seventh report
C25_Witness ==
    \E i \in 1..Len(alerts) :
        LET a == alerts[i].value
        IN  /\ a.reportCount = 7
            /\ a.severity = 5
            /\ Analysis[postOfId(a.sources[1])].severity = 2
            /\ a.sentimentScore.num >= -10 * a.sentimentScore.den

\* C26: an image classified as a disaster type (not none) has confidence at
\* least 0.5 and severity 3, 4 or 5; the classifier never produces severity
\* 1 or 2.
C26_ImageSeverityAtLeastThree ==
    satelliteResult # Null =>
        /\ satelliteResult.disasterType # "none" =>
              /\ 10 * satelliteResult.confidence >= 5 * IOne
              /\ satelliteResult.severity \in { 3, 4, 5 }
        /\ satelliteResult.severity \notin { 1, 2 }

\* C26 witness: a flood whose confidence is the closest to 0.5 the grid
\* allows (0.6) has severity 4
C26_Witness ==
    /\ satelliteResult # Null
    /\ satelliteResult.disasterType = "flood"
    /\ satelliteResult.confidence = dec(5, 10) + 2 * 10000
    /\ satelliteResult.severity = 4

\* the channel means of the run are r/100, g/100, b/100
meansAre(r, g, b) ==
    /\ 100 * channelMeans.r = r * IOne
    /\ 100 * channelMeans.g = g * IOne
    /\ 100 * channelMeans.b = b * IOne

categoryOf(type) == CHOOSE i \in Categories : disasterKeywords[i].type = type

\* every keyword of the table that is a substring of the text of the call
matchedAnywhere ==
    UNION { { disasterKeywords[i].keywords[k] :
                k \in { m \in 1..Len(disasterKeywords[i].keywords) :
                          includes(calledText, disasterKeywords[i].keywords[m]) } } :
            i \in Categories }

\* C28: 'cyclone' is a keyword of hurricane and of cyclone and hurricane is
\* checked first: a post is classified as cyclone only if it matches
\* strictly more cyclone keywords than hurricane keywords and than keywords
\* of every other earlier category; a post whose only matched keyword is
\* 'cyclone' is classified as hurricane.
C28_CycloneNeedsMoreThanHurricane ==
    textResult # Null =>
        /\ categoryOf("hurricane") < categoryOf("cyclone")
        /\ textResult.disasterType = "cyclone" =>
              \A j \in Categories : j < categoryOf("cyclone") =>
                  matchCount(calledText, j) < matchCount(calledText, categoryOf("cyclone"))
        /\ matchedAnywhere = { "cyclone" } => textResult.disasterType = "hurricane"

\* C28 witness: the only matched keyword is 'cyclone' and the post is a
\* hurricane
C28_Witness ==
    /\ textResult # Null
    /\ matchedAnywhere = { "cyclone" }
    /\ textResult.disasterType = "hurricane"
    /\ matchCount(calledText, categoryOf("cyclone")) = 1

\* a post with more cyclone keywords than hurricane keywords is a cyclone
C28_CycloneReached ==
    /\ textResult # Null
    /\ textResult.disasterType = "cyclone"
    /\ matchCount(calledText, categoryOf("hurricane")) = 1

\* the matched keywords of keyword list ks in text, in table order
matchedIn(text, ks) ==
    LET pick[k \in 0..Len(ks)] ==
            IF k = 0 THEN << >>
            ELSE IF includes(text, ks[k]) THEN Append(pick[k - 1], ks[k])
            ELSE pick[k - 1]
    IN  pick[Len(ks)]

\* C29: the keywords of a signal are the concatenation, in table order, of
\* the matched keywords of every category that strictly raised the running
\* maximum (that has more matches than every category before it); they end
\* with all matched keywords of the winning category, and they are exactly
\* the winner's matched keywords if and only if no category before the
\* winner matched any keyword.
C29_KeywordsOfRaisers ==
    textResult # Null =>
        LET text    == calledText
            matched == [i \in Categories |-> matchedIn(text, disasterKeywords[i].keywords)]
            raisers == { i \in Categories :
                           /\ Len(matched[i]) > 0
                           /\ \A j \in Categories :
                                 j < i => Len(matched[j]) < Len(matched[i]) }
            raised[n \in 0..Len(disasterKeywords)] ==
                IF n = 0 THEN << >>
                ELSE IF n \in raisers THEN raised[n - 1] \o matched[n]
                ELSE raised[n - 1]
            ks      == textResult.keywords
        IN  /\ ks = raised[Len(disasterKeywords)]
            /\ textResult.disasterType # "null" =>
                  LET w   == categoryOf(textResult.disasterType)
                      own == matched[w]
                  IN  /\ Len(ks) >= Len(own)
                      /\ SubSeq(ks, Len(ks) - Len(own) + 1, Len(ks)) = own
                      /\ (ks = own) <=>
                            (\A j \in Categories : j < w => Len(matched[j]) = 0)

\* C29 witness: flood raised the maximum to 1 and fire to 2, the keywords
\* are those of flood followed by those of fire
C29_Witness ==
    /\ textResult # Null
    /\ textResult.disasterType = "fire"
    /\ textResult.keywords = << "flood", "fire", "smoke" >>

\* C30: for any interleaving of predict and trainModel calls on the shared
\* model, model.predict evaluates the network only when isTrained is true:
\* a predict call that arrives while the training of another call is in
\* progress does not evaluate before that training has finished.
C30_PredictAfterTraining ==
    \A e \in evaluations : e.isTrained

====
